---- MODULE Spec2Model ----
(***************************************************************************)
(* RoadParser::Parse (LibCarla/source/carla/opendrive/parser/RoadParser.cpp)*)
(* as a state machine: the extraction loop over the road elements of an    *)
(* OpenDRIVE document, followed by the forwarding loop that calls the      *)
(* MapBuilder.  The builder is modelled by the sequence of calls it gets.  *)
(*                                                                         *)
(* XML: an attribute is <<>> (absent) or <<v>>; an optional child element  *)
(* is <<>> (the null node) or <<node>>; repeated children are a sequence.  *)
(* Floats are modelled by integers.                                        *)
(***************************************************************************)
EXTENDS Integers, Sequences, FiniteSets, TLC

----------------------------------------------------------------------------
(* Bounds of the documents that are explored *)

MaxRoads == 2

MaxOffsets == 2

MaxSections == 2

MaxLanes == 2

MaxTypes == 1

----------------------------------------------------------------------------
(* pugixml typed access *)

as_int(attr) == IF Len(attr) = 0 THEN 0 ELSE attr[1]

as_float(attr) == IF Len(attr) = 0 THEN 0 ELSE attr[1]

as_bool(attr) == IF Len(attr) = 0 THEN FALSE ELSE attr[1]

value(attr) == IF Len(attr) = 0 THEN "" ELSE attr[1]

\* node.child(tag).children(sub): the null node has no children
children(node, sub) == IF Len(node) = 0 THEN <<>> ELSE node[1][sub]

\* node.child(tag).child(sub): the null node has no child
child(node, sub) == IF Len(node) = 0 THEN <<>> ELSE node[1][sub]

Min(x, y) == IF x < y THEN x ELSE y

RECURSIVE SeqsUpTo(_, _)
\* all sequences over S of length at most n
SeqsUpTo(S, n) ==
  IF n = 0 THEN {<<>>}
  ELSE LET shorter == SeqsUpTo(S, n - 1)
       IN  shorter \cup {Append(q, x) : q \in {t \in shorter : Len(t) = n - 1}, x \in S}

----------------------------------------------------------------------------
(* The data model, lines 20-55 *)

\* Road road { 0, "", 0.0, -1, -1, -1, {}, {} }
RoadInit ==
  [id |-> 0, name |-> "", length |-> 0, junction_id |-> -1,
   predecessor |-> -1, successor |-> -1, speed |-> <<>>, sections |-> <<>>]

\* Lane lane { 0, "none", false, 0, 0 }
LaneInit ==
  [id |-> 0, type |-> "none", level |-> FALSE, predecessor |-> 0, successor |-> 0]

\* RoadTypeSpeed type { 0.0, "", 0.0, "" }
TypeInit == [s |-> 0, type |-> "", max |-> 0, unit |-> ""]

----------------------------------------------------------------------------
(* Extraction of one road element *)

\* lines 75-76 reading the elementId of the successor child instead
RoadPredecessorSwapped(node_road) ==
  IF Len(node_road.link) > 0 /\ Len(child(node_road.link, "predecessor")) > 0
  THEN as_int(children(child(node_road.link, "successor"), "elementId"))
  ELSE RoadInit.predecessor

\* lines 73-76: the predecessor, -1 of line 64 kept without link or child
RoadPredecessor(node_road) ==
  IF Len(node_road.link) > 0 /\ Len(child(node_road.link, "predecessor")) > 0
  THEN as_int(child(node_road.link, "predecessor")[1].elementId)
  ELSE RoadInit.predecessor

\* lines 73-78: the successor, -1 of line 64 kept without link or child
RoadSuccessor(node_road) ==
  IF Len(node_road.link) > 0 /\ Len(child(node_road.link, "successor")) > 0
  THEN as_int(child(node_road.link, "successor")[1].elementId)
  ELSE RoadInit.successor

\* lines 82-97
ParseType(node_type) ==
  [s    |-> as_float(node_type.s),
   type |-> value(node_type.type),
   max  |-> IF Len(node_type.speed) > 0 THEN as_float(node_type.speed[1].max)
            ELSE TypeInit.max,
   unit |-> IF Len(node_type.speed) > 0 THEN value(node_type.speed[1].unit)
            ELSE TypeInit.unit]

\* lines 64-97: attributes, link and types of a road element
ParseRoadHeader(node_road) ==
  [id          |-> as_int(node_road.id),
   name        |-> value(node_road.name),
   length      |-> as_float(node_road.length),
   junction_id |-> as_int(node_road.junction),
   predecessor |-> RoadPredecessor(node_road),
   successor   |-> RoadSuccessor(node_road),
   speed       |-> [t \in 1..Len(node_road.type) |-> ParseType(node_road.type[t])],
   sections    |-> RoadInit.sections]

\* lines 102-107
ParseOffset(node_offset) ==
  [s |-> as_float(node_offset.s),
   a |-> as_float(node_offset.a),
   b |-> as_float(node_offset.b),
   c |-> as_float(node_offset.c),
   d |-> as_float(node_offset.d)]

\* lines 100-109: the deque is local to the road being extracted
ParseLaneOffsets(node_road) ==
  LET offs == children(node_road.lanes, "laneOffset")
  IN  [p \in 1..Len(offs) |-> ParseOffset(offs[p])]

\* lines 126-139 and 150-163
ParseLane(node_lane) ==
  [id          |-> as_int(node_lane.id),
   type        |-> value(node_lane.type),
   level       |-> as_bool(node_lane.level),
   predecessor |-> IF Len(node_lane.link) > 0 /\ Len(child(node_lane.link, "predecessor")) > 0
                   THEN as_int(child(node_lane.link, "predecessor")[1].id)
                   ELSE LaneInit.predecessor,
   successor   |-> IF Len(node_lane.link) > 0 /\ Len(child(node_lane.link, "successor")) > 0
                   THEN as_int(child(node_lane.link, "successor")[1].id)
                   ELSE LaneInit.successor]

\* the loops of lines 125 and 149 with line 146 reading the center lanes
SectionLaneNodesWithCenter(node_section) ==
  children(node_section.left, "lane") \o children(node_section.center, "lane")
    \o children(node_section.right, "lane")

\* the loops of lines 125 and 149 in the other order
SectionLaneNodesRightFirst(node_section) ==
  children(node_section.right, "lane") \o children(node_section.left, "lane")

\* the lane elements the loops of lines 125 and 149 visit; line 146 is a comment
SectionLaneNodes(node_section) ==
  children(node_section.left, "lane") \o children(node_section.right, "lane")

\* lines 124-172
ParseLanes(node_section) ==
  LET nodes == SectionLaneNodes(node_section)
  IN  [p \in 1..Len(nodes) |-> ParseLane(nodes[p])]

\* lines 113-175 with the coefficients read at lines 118-121
ParseSection(node_section, offset) ==
  [s |-> as_float(node_section.s),
   a |-> offset.a, b |-> offset.b, c |-> offset.c, d |-> offset.d,
   lanes |-> ParseLanes(node_section)]

\* line 122 left out: the front polynomial stays in the deque
pop_front_none(q) == q

\* lane_offsets.pop_front() on a non-empty deque, line 122
pop_front(q) == Tail(q)

\* lane_offsets[0] on a non-empty deque, lines 118-121
front(q) == q[1]

\* lane_offsets[0] on an empty deque is undefined: when the build does not trap
\* the coefficients are whatever the memory holds
GarbageVals == {0, -99}

GarbagePolynomials == {[a |-> g, b |-> g, c |-> g, d |-> g] : g \in GarbageVals}

----------------------------------------------------------------------------
(* Builder calls, lines 217-230 *)

AddRoad(r) ==
  [op |-> "AddRoad", id |-> r.id, name |-> r.name, length |-> r.length,
   junctionId |-> r.junction_id, predecessor |-> r.predecessor,
   successor |-> r.successor]

SetRoadTypeSpeed(r, s) ==
  [op |-> "SetRoadTypeSpeed", roadId |-> r.id, s |-> s.s, type |-> s.type,
   maxSpeed |-> s.max, unit |-> s.unit]

\* geom::CubicPolynomial(s.a, s.b, s.c, s.d, s.s)
CubicPolynomial(a, b, c, d, s) == <<a, b, c, d, s>>

AddRoadSection(r, s) ==
  [op |-> "AddRoadSection", roadId |-> r.id,
   polynomial |-> CubicPolynomial(s.a, s.b, s.c, s.d, s.s)]

AddRoadSectionLane(r, idx, l) ==
  [op |-> "AddRoadSectionLane", roadId |-> r.id, sectionIndex |-> idx,
   laneId |-> l.id, laneType |-> l.type, level |-> l.level,
   predecessorLane |-> l.predecessor, successorLane |-> l.successor]

----------------------------------------------------------------------------
(* The documents that are explored: the road elements under OpenDRIVE *)

RoadLinks ==
  {<<>>}
  \cup {<<[predecessor |-> p, successor |-> s]>> :
          p \in {<<>>, <<[elementId |-> <<>>]>>, <<[elementId |-> <<3>>]>>},
          s \in {<<>>, <<[elementId |-> <<>>]>>, <<[elementId |-> <<4>>]>>}}

LaneLinks ==
  {<<>>}
  \cup {<<[predecessor |-> p, successor |-> s]>> :
          p \in {<<>>, <<[id |-> <<2>>]>>},
          s \in {<<>>, <<[id |-> <<>>]>>, <<[id |-> <<-2>>]>>}}

TypeNodes ==
  [s : {<<>>, <<3>>}, type : {<<>>, <<"town">>},
   speed : {<<>>} \cup {<<sp>> : sp \in [max : {<<>>, <<30>>}, unit : {<<>>, <<"mph">>}]}]

LaneNodes ==
  [id : {<<>>, <<0>>, <<1>>, <<-1>>}, type : {<<>>, <<"driving">>},
   level : {<<>>, <<TRUE>>}, link : LaneLinks]

\* the p-th lane of a side, ids counted away from the center lane
SideLane(sign, p) ==
  [id |-> <<sign * p>>, type |-> <<"driving">>, level |-> <<>>, link |-> <<>>]

LeftSide(n) == <<[lane |-> [p \in 1..n |-> SideLane(1, p)]]>>

RightSide(n) == <<[lane |-> [p \in 1..n |-> SideLane(-1, p)]]>>

CenterSide ==
  <<[lane |-> <<[id |-> <<0>>, type |-> <<"none">>, level |-> <<>>, link |-> <<>>]>>]>>

\* the p-th laneOffset of road k: every coefficient of every polynomial differs
OffsetNode(k, p) ==
  [s |-> <<10 * (p - 1)>>,
   a |-> <<100 * k + 10 * p + 1>>, b |-> <<100 * k + 10 * p + 2>>,
   c |-> <<100 * k + 10 * p + 3>>, d |-> <<100 * k + 10 * p + 4>>]

Offsets(k, n) == [p \in 1..n |-> OffsetNode(k, p)]

SectionNode(sv, left, center, right) ==
  [s |-> sv, left |-> left, center |-> center, right |-> right]

RoadNode(id, link, types, lanes) ==
  [id |-> id, name |-> <<"road">>, length |-> <<50>>,
   junction |-> IF Len(link) = 0 THEN <<-1>> ELSE <<>>,
   link |-> link, type |-> types, lanes |-> lanes]

\* road k > 1 is linked to the road before it and has no successor
ChainLink(k) ==
  IF k = 1 THEN <<>>
  ELSE <<[predecessor |-> <<[elementId |-> <<k - 1>>]>>, successor |-> <<>>]>>

TownType(t) ==
  [s |-> <<20 * (t - 1)>>, type |-> <<"town">>,
   speed |-> <<[max |-> <<30 + t>>, unit |-> <<"mph">>]>>]

\* road k of a document of several roads: nO laneOffset and nS laneSection
\* elements, s descending in the first road and ascending in the others, one
\* lane on each side of the center lane
CoreRoad(k, nO, nS) ==
  RoadNode(<<k>>, ChainLink(k), [t \in 1..Min(k - 1, MaxTypes) |-> TownType(t)],
           <<[laneOffset  |-> Offsets(k, nO),
              laneSection |-> [j \in 1..nS |->
                 SectionNode(<<10 * (IF k = 1 THEN nS - j ELSE j - 1)>>,
                             LeftSide(1), CenterSide, RightSide(1))]]>>)

\* the numbers of laneOffset and laneSection elements of a road: all of them in
\* a document of one road, those that differ by at most one otherwise
CoreShapes(n) ==
  {sh \in (0..MaxOffsets) \X (0..MaxSections) :
     n = 1 \/ (sh[1] - sh[2] \in {-1, 0, 1})}

CoreDocs ==
  UNION {{[k \in 1..n |-> CoreRoad(k, f[k][1], f[k][2])] :
            f \in [1..n -> CoreShapes(n)]} : n \in 1..MaxRoads}

\* one road, every combination of attributes and link
HeaderDocs ==
  {<<[id |-> id, name |-> nm, length |-> ln, junction |-> jn, link |-> lk,
      type |-> <<>>,
      lanes |-> <<[laneOffset |-> Offsets(1, 1),
                   laneSection |-> <<SectionNode(<<0>>, <<>>, <<>>, <<>>)>>]>>]>> :
     id \in {<<>>, <<7>>}, nm \in {<<>>, <<"main">>}, ln \in {<<>>, <<50>>},
     jn \in {<<>>, <<-1>>, <<4>>}, lk \in RoadLinks}

\* one road, every sequence of type elements
TypeDocs ==
  {<<RoadNode(<<7>>, <<>>, ts, <<>>)>> : ts \in SeqsUpTo(TypeNodes, MaxTypes)}

\* one road, one section holding one lane element of every kind on either side
LaneDocs ==
  {<<RoadNode(<<7>>, <<>>, <<>>,
       <<[laneOffset |-> Offsets(1, 1),
          laneSection |-> <<SectionNode(<<0>>,
              IF left THEN <<[lane |-> <<ln>>]>> ELSE <<>>, cn,
              IF left THEN <<>> ELSE <<[lane |-> <<ln>>]>>)>>]>>)>> :
     ln \in LaneNodes, left \in BOOLEAN, cn \in {<<>>, CenterSide}}

Sides(S(_)) == {<<>>} \cup {S(n) : n \in 0..MaxLanes}

CoarseSides(S(_)) == {<<>>, S(MaxLanes)}

\* one road, sections of every shape, s descending
ShapeDocs ==
  {<<RoadNode(<<7>>, <<>>, <<>>,
       <<[laneOffset |-> Offsets(1, 1),
          laneSection |-> <<SectionNode(<<90>>, lf, CenterSide, rt)>>]>>)>> :
     lf \in Sides(LeftSide), rt \in Sides(RightSide)}
  \cup
  UNION {{<<RoadNode(<<7>>, <<>>, <<>>,
            <<[laneOffset |-> Offsets(1, n),
               laneSection |-> [j \in 1..n |->
                  SectionNode(<<100 - 10 * j>>, f[j][1], CenterSide, f[j][2])]]>>)>> :
            f \in [1..n -> CoarseSides(LeftSide) \X CoarseSides(RightSide)]} :
         n \in 2..MaxSections}

\* one road whose laneOffset elements lack attributes, and one without lanes
OffsetDocs ==
  {<<RoadNode(<<7>>, <<>>, <<>>,
       <<[laneOffset  |-> <<[s |-> <<>>, a |-> av, b |-> <<>>, c |-> <<5>>, d |-> <<>>],
                            OffsetNode(1, 2)>>,
          laneSection |-> [j \in 1..n |->
             SectionNode(<<>>, LeftSide(1), <<>>, <<>>)]]>>)>> :
     av \in {<<>>, <<6>>}, n \in 1..MaxSections}
  \cup {<<RoadNode(<<7>>, <<>>, <<>>, <<>>)>>}

Documents ==
  {<<>>} \cup CoreDocs \cup HeaderDocs \cup TypeDocs \cup LaneDocs \cup ShapeDocs
         \cup OffsetDocs

----------------------------------------------------------------------------
(* State *)

VARIABLES
  doc,          \* xml.child("OpenDRIVE").children("road")
  pc,           \* where Parse is
  node_road,    \* position of the road loop of line 63
  road,         \* the Road under construction
  lane_offsets, \* the deque of line 100
  node_section, \* position of the section loop of line 112
  roads,        \* std::vector<Road> roads
  r,            \* position of the loop of line 216
  s,            \* position of the loop of line 220 or of line 225
  i,            \* int i of line 224
  l,            \* position of the loop of line 229
  calls         \* the calls map_builder has received

vars == <<doc, pc, node_road, road, lane_offsets, node_section, roads, r, s, i, l, calls>>

extraction == <<node_road, road, lane_offsets, node_section, roads>>

forwarding == <<r, s, i, l, calls>>

Init ==
  /\ doc \in Documents
  /\ pc = "road"
  /\ node_road = 1
  /\ road = RoadInit
  /\ lane_offsets = <<>>
  /\ node_section = 0
  /\ roads = <<>>
  /\ r = 0 /\ s = 0 /\ i = 0 /\ l = 0
  /\ calls = <<>>

NodeSections == children(doc[node_road].lanes, "laneSection")

\* the road loop of line 63 goes on
MoreRoads(n, xml) == n <= Len(xml)

\* lines 63-109: a road element up to its lane sections
BeginRoad ==
  /\ pc = "road"
  /\ MoreRoads(node_road, doc)
  /\ road' = ParseRoadHeader(doc[node_road])
  /\ lane_offsets' = ParseLaneOffsets(doc[node_road])
  /\ node_section' = 1
  /\ pc' = "section"
  /\ UNCHANGED <<doc, node_road, roads, forwarding>>

\* lines 112-176 with a polynomial in the deque
Section ==
  /\ pc = "section"
  /\ node_section <= Len(NodeSections)
  /\ Len(lane_offsets) > 0
  /\ road' = [road EXCEPT !.sections =
        Append(@, ParseSection(NodeSections[node_section], front(lane_offsets)))]
  /\ lane_offsets' = pop_front(lane_offsets)
  /\ node_section' = node_section + 1
  /\ UNCHANGED <<doc, pc, node_road, roads, forwarding>>

\* lines 112-176 on an empty deque when the build does not trap: lines 118-121
\* read indeterminate memory and line 122 leaves a deque that is still unusable
SectionUnderflowGarbage ==
  /\ pc = "section"
  /\ node_section <= Len(NodeSections)
  /\ Len(lane_offsets) = 0
  /\ \E g \in GarbagePolynomials :
       road' = [road EXCEPT !.sections =
          Append(@, ParseSection(NodeSections[node_section], g))]
  /\ node_section' = node_section + 1
  /\ UNCHANGED <<doc, pc, node_road, lane_offsets, roads, forwarding>>

\* lines 118-122 on an empty deque, the build traps
SectionUnderflowTrap ==
  /\ pc = "section"
  /\ node_section <= Len(NodeSections)
  /\ Len(lane_offsets) = 0
  /\ pc' = "fatal"
  /\ UNCHANGED <<doc, extraction, forwarding>>

\* line 179, with the road registered as soon as it is extracted
EndRoadForwardsAtOnce ==
  /\ pc = "section"
  /\ node_section > Len(NodeSections)
  /\ roads' = Append(roads, road)
  /\ calls' = Append(calls, AddRoad(road))
  /\ road' = RoadInit
  /\ lane_offsets' = <<>>
  /\ node_section' = 0
  /\ node_road' = node_road + 1
  /\ pc' = "road"
  /\ UNCHANGED <<doc, r, s, i, l>>

\* line 179
EndRoad ==
  /\ pc = "section"
  /\ node_section > Len(NodeSections)
  /\ roads' = Append(roads, road)
  /\ road' = RoadInit
  /\ lane_offsets' = <<>>
  /\ node_section' = 0
  /\ node_road' = node_road + 1
  /\ pc' = "road"
  /\ UNCHANGED <<doc, forwarding>>

\* the loop of line 63 ends, the loop of line 216 begins
EndExtraction ==
  /\ pc = "road"
  /\ ~MoreRoads(node_road, doc)
  /\ pc' = "fwd_road"
  /\ r' = 1
  /\ UNCHANGED <<doc, extraction, s, i, l, calls>>

\* line 233 left out
NextSectionIndexStuck(idx) == idx

\* ++i, line 233
NextSectionIndex(idx) == idx + 1

\* line 217
ForwardRoad ==
  /\ pc = "fwd_road"
  /\ r <= Len(roads)
  /\ calls' = Append(calls, AddRoad(roads[r]))
  /\ s' = 1
  /\ pc' = "fwd_speed"
  /\ UNCHANGED <<doc, extraction, r, i, l>>

\* line 221
ForwardSpeed ==
  /\ pc = "fwd_speed"
  /\ s <= Len(roads[r].speed)
  /\ calls' = Append(calls, SetRoadTypeSpeed(roads[r], roads[r].speed[s]))
  /\ s' = s + 1
  /\ UNCHANGED <<doc, pc, extraction, r, i, l>>

\* line 224, reached before the loop of line 220 has ended
BeginSectionsEarly ==
  /\ pc = "fwd_speed"
  /\ i' = 0
  /\ s' = 1
  /\ pc' = "fwd_section"
  /\ UNCHANGED <<doc, extraction, r, l, calls>>

\* line 224
BeginSections ==
  /\ pc = "fwd_speed"
  /\ s > Len(roads[r].speed)
  /\ i' = 0
  /\ s' = 1
  /\ pc' = "fwd_section"
  /\ UNCHANGED <<doc, extraction, r, l, calls>>

\* line 226
ForwardSection ==
  /\ pc = "fwd_section"
  /\ s <= Len(roads[r].sections)
  /\ calls' = Append(calls, AddRoadSection(roads[r], roads[r].sections[s]))
  /\ l' = 1
  /\ pc' = "fwd_lane"
  /\ UNCHANGED <<doc, extraction, r, s, i>>

\* line 230
ForwardLane ==
  /\ pc = "fwd_lane"
  /\ l <= Len(roads[r].sections[s].lanes)
  /\ calls' = Append(calls, AddRoadSectionLane(roads[r], i, roads[r].sections[s].lanes[l]))
  /\ l' = l + 1
  /\ UNCHANGED <<doc, pc, extraction, r, s, i>>

\* line 233
EndSection ==
  /\ pc = "fwd_lane"
  /\ l > Len(roads[r].sections[s].lanes)
  /\ i' = NextSectionIndex(i)
  /\ s' = s + 1
  /\ l' = 0
  /\ pc' = "fwd_section"
  /\ UNCHANGED <<doc, extraction, r, calls>>

\* line 235
NextRoad ==
  /\ pc = "fwd_section"
  /\ s > Len(roads[r].sections)
  /\ r' = r + 1
  /\ s' = 0
  /\ i' = 0
  /\ pc' = "fwd_road"
  /\ UNCHANGED <<doc, extraction, l, calls>>

\* line 236
Return ==
  /\ pc = "fwd_road"
  /\ r > Len(roads)
  /\ pc' = "done"
  /\ r' = 0
  /\ UNCHANGED <<doc, extraction, s, i, l, calls>>

Next ==
  \/ BeginRoad
  \/ Section
  \/ SectionUnderflowGarbage
  \/ SectionUnderflowTrap
  \/ EndRoad
  \/ EndExtraction
  \/ ForwardRoad
  \/ ForwardSpeed
  \/ BeginSections
  \/ ForwardSection
  \/ ForwardLane
  \/ EndSection
  \/ NextRoad
  \/ Return

Spec == Init /\ [][Next]_vars

----------------------------------------------------------------------------
(* What the document says, read without the parser *)

AttrOr(attr, dflt) == IF attr = <<>> THEN dflt ELSE attr[1]

Elems(node, tag) == IF node = <<>> THEN <<>> ELSE node[1][tag]

DocOffsets(k) == Elems(doc[k].lanes, "laneOffset")

DocSections(k) == Elems(doc[k].lanes, "laneSection")

\* the lane elements under left, then those under right, of section j of road k
DocLanes(k, j) ==
  Elems(DocSections(k)[j].left, "lane") \o Elems(DocSections(k)[j].right, "lane")

\* the elementId of the road link's predecessor or successor child, -1 without it
DocLinkEnd(k, end) ==
  IF doc[k].link = <<>> THEN -1
  ELSE IF doc[k].link[1][end] = <<>> THEN -1
  ELSE AttrOr(doc[k].link[1][end][1].elementId, 0)

EnoughOffsets(k) == Len(DocOffsets(k)) >= Len(DocSections(k))

(* Where a builder call stands in the sequence of calls *)

Positions(lo, hi, o) == {q \in lo..hi : calls[q].op = o}

Last(S) == CHOOSE q \in S : \A q2 \in S : q2 <= q

\* for the p-th call: the number of AddRoad calls up to it, and within the block
\* of the last of them the number of SetRoadTypeSpeed and AddRoadSection calls,
\* and the number of AddRoadSectionLane calls since the last AddRoadSection
Where(p) ==
  LET rs     == Positions(1, p, "AddRoad")
      start  == IF rs = {} THEN 1 ELSE Last(rs)
      ss     == Positions(start, p, "AddRoadSection")
      sstart == IF ss = {} THEN start ELSE Last(ss)
  IN  [road    |-> Cardinality(rs),
       speed   |-> Cardinality(Positions(start, p, "SetRoadTypeSpeed")),
       section |-> Cardinality(ss),
       lane    |-> Cardinality(Positions(sstart, p, "AddRoadSectionLane"))]

\* the block that ends at the p-th call holds every call its road element asks for
BlockComplete(p) ==
  LET w == Where(p)
  IN  /\ w.road \in 1..Len(doc)
      /\ w.speed = Len(doc[w.road].type)
      /\ w.section = Len(DocSections(w.road))
      /\ w.section > 0 => w.lane = Len(DocLanes(w.road, w.section))

IsAddRoad(c) == c.op = "AddRoad"

----------------------------------------------------------------------------
(* Claims *)

\* C1: for every road with at least as many laneOffset as laneSection elements,
\* the N-th AddRoadSection call of the road's block carries the a, b, c, d of the
\* road's N-th laneOffset; while such a road is extracted the deque holds exactly
\* the laneOffsets not yet given to a section, so none is given twice; and when
\* Parse returns every section of such a road has been forwarded.
C1_FifoPerRoad ==
  /\ \A p \in 1..Len(calls) :
       calls[p].op = "AddRoadSection" =>
         LET w == Where(p)
         IN  /\ w.road \in 1..Len(doc)
             /\ EnoughOffsets(w.road) =>
                  /\ w.section <= Len(DocSections(w.road))
                  /\ LET o == DocOffsets(w.road)[w.section]
                     IN  /\ calls[p].polynomial[1] = AttrOr(o.a, 0)
                         /\ calls[p].polynomial[2] = AttrOr(o.b, 0)
                         /\ calls[p].polynomial[3] = AttrOr(o.c, 0)
                         /\ calls[p].polynomial[4] = AttrOr(o.d, 0)
  /\ (pc = "section" /\ EnoughOffsets(node_road)) =>
       /\ Len(road.sections) + Len(lane_offsets) = Len(DocOffsets(node_road))
       /\ \A q \in 1..Len(lane_offsets) :
            lane_offsets[q].a = AttrOr(DocOffsets(node_road)[Len(road.sections) + q].a, 0)
  /\ pc = "done" =>
       \A k \in 1..Len(doc) :
         EnoughOffsets(k) =>
           \E p \in 1..Len(calls) :
             /\ Where(p).road = k
             /\ Where(p).section = Len(DocSections(k))

\* a second road with two sections and two laneOffsets has had its second
\* section forwarded after a first road that left a laneOffset unconsumed
C1_Witness ==
  /\ Len(doc) >= 2
  /\ Len(DocOffsets(1)) > Len(DocSections(1))
  /\ Len(DocSections(2)) = 2
  /\ EnoughOffsets(2)
  /\ \E p \in 1..Len(calls) :
       /\ calls[p].op = "AddRoadSection"
       /\ Where(p).road = 2
       /\ Where(p).section = 2

\* C2: a lane section processed with the deque empty makes the run fatal, so no
\* road ever holds more sections than its element has laneOffsets.
C2_UnderflowIsFatal ==
  /\ pc = "section" => Len(road.sections) <= Len(DocOffsets(node_road))
  /\ \A k \in 1..Len(roads) : Len(roads[k].sections) <= Len(DocOffsets(k))

\* C3: the AddRoad calls are, in document order, one per road element, each with
\* the element's id, name, length and junction (the typed-access default when the
\* attribute is absent) and with the elementId of the link's predecessor and
\* successor children, -1 without the link or the child; all of them when Parse
\* returns.
C3_AddRoadPerRoadElement ==
  LET adds == SelectSeq(calls, IsAddRoad)
  IN  /\ Len(adds) <= Len(doc)
      /\ pc = "done" => Len(adds) = Len(doc)
      /\ \A k \in 1..Len(adds) :
           adds[k] = [op          |-> "AddRoad",
                      id          |-> AttrOr(doc[k].id, 0),
                      name        |-> AttrOr(doc[k].name, ""),
                      length      |-> AttrOr(doc[k].length, 0),
                      junctionId  |-> AttrOr(doc[k].junction, 0),
                      predecessor |-> DocLinkEnd(k, "predecessor"),
                      successor   |-> DocLinkEnd(k, "successor")]

\* Parse has returned on a document of two roads, the first without link, the
\* second with a predecessor and no successor and without junction attribute
C3_Witness ==
  /\ pc = "done"
  /\ Len(doc) = 2
  /\ doc[1].link = <<>>
  /\ doc[2].junction = <<>>
  /\ Len(SelectSeq(calls, IsAddRoad)) = 2
  /\ calls[1].predecessor = -1
  /\ \E p \in 2..Len(calls) :
       calls[p].op = "AddRoad" /\ calls[p].predecessor = 1 /\ calls[p].successor = -1

C5_SectionIndexIsPosition ==
  \A p \in 1..Len(calls) :
    calls[p].op = "AddRoadSectionLane" =>
      /\ Where(p).section >= 1
      /\ calls[p].sectionIndex + 1 = Where(p).section

\* a lane of the first section of a second road is forwarded with index 0 after a
\* first road whose second section, of smaller s than its first, had index 1
C5_Witness ==
  /\ Len(doc) = 2
  /\ Len(DocSections(1)) = 2
  /\ AttrOr(DocSections(1)[2].s, 0) < AttrOr(DocSections(1)[1].s, 0)
  /\ \E p, q \in 1..Len(calls) :
       /\ calls[p].op = "AddRoadSectionLane" /\ Where(p).road = 1
       /\ calls[p].sectionIndex = 1
       /\ calls[q].op = "AddRoadSectionLane" /\ Where(q).road = 2
       /\ calls[q].sectionIndex = 0

\* C6: a lane element without type attribute is forwarded with laneType "none".
C6_MissingTypeIsNone ==
  \A p \in 1..Len(calls) :
    calls[p].op = "AddRoadSectionLane" =>
      LET w == Where(p)
      IN  (/\ w.road \in 1..Len(doc)
           /\ w.section \in 1..Len(DocSections(w.road))
           /\ w.lane \in 1..Len(DocLanes(w.road, w.section))
           /\ DocLanes(w.road, w.section)[w.lane].type = <<>>)
          => calls[p].laneType = "none"

\* C7: a road element without junction attribute is forwarded with junctionId -1.
C7_NoJunctionIsMinusOne ==
  LET adds == SelectSeq(calls, IsAddRoad)
  IN  \A k \in 1..Len(adds) :
        (k <= Len(doc) /\ doc[k].junction = <<>>) => adds[k].junctionId = -1

\* C8 as stated: no AddRoadSectionLane call carries laneId 0.
C8_NoLaneIdZero ==
  \A p \in 1..Len(calls) :
    calls[p].op = "AddRoadSectionLane" => calls[p].laneId # 0

\* C8 amended: an AddRoadSectionLane call carries laneId 0 exactly when the lane
\* element under left or right that it forwards has id 0 or no id attribute; the
\* lane elements under center are never forwarded.
C8_ZeroOnlyFromSideLane ==
  \A p \in 1..Len(calls) :
    calls[p].op = "AddRoadSectionLane" =>
      LET w == Where(p)
      IN  /\ w.road \in 1..Len(doc)
          /\ w.section \in 1..Len(DocSections(w.road))
          /\ w.lane \in 1..Len(DocLanes(w.road, w.section))
          /\ calls[p].laneId = 0
               <=> DocLanes(w.road, w.section)[w.lane].id \in {<<>>, <<0>>}

\* a lane under left or right without id, beside a center lane, has been
\* forwarded with laneId 0, and it is the only lane call of its section
C8_Witness ==
  /\ pc = "done"
  /\ Len(doc) = 1
  /\ Len(DocSections(1)) = 1
  /\ Len(Elems(DocSections(1)[1].center, "lane")) = 1
  /\ Len(DocLanes(1, 1)) = 1
  /\ DocLanes(1, 1)[1].id = <<>>
  /\ Len(calls) = 3
  /\ calls[3].op = "AddRoadSectionLane"
  /\ calls[3].laneId = 0

\* C9: the lane calls that follow an AddRoadSection are the lane elements under
\* left in document order and then those under right in document order, one call
\* each, with the element's id and level; once the section is closed by another
\* call or by the return of Parse none is missing, so a section without left and
\* right has no lane call.
C9_LanesLeftThenRight ==
  \A p \in 1..Len(calls) :
    LET w == Where(p)
    IN  /\ calls[p].op = "AddRoadSectionLane" =>
             /\ w.road \in 1..Len(doc)
             /\ w.section \in 1..Len(DocSections(w.road))
             /\ w.lane \in 1..Len(DocLanes(w.road, w.section))
             /\ calls[p].laneId = AttrOr(DocLanes(w.road, w.section)[w.lane].id, 0)
             /\ calls[p].level = AttrOr(DocLanes(w.road, w.section)[w.lane].level, FALSE)
        /\ (/\ calls[p].op \in {"AddRoadSection", "AddRoadSectionLane"}
            /\ \/ p < Len(calls) /\ calls[p + 1].op # "AddRoadSectionLane"
               \/ p = Len(calls) /\ pc = "done")
           => /\ w.road \in 1..Len(doc)
              /\ w.section \in 1..Len(DocSections(w.road))
              /\ w.lane = Len(DocLanes(w.road, w.section))

\* Parse has returned on a road whose first section has two lanes on each side,
\* forwarded as 1, 2, -1, -2, and whose second section, without left and right,
\* is forwarded without lane call
C9_Witness ==
  /\ pc = "done"
  /\ Len(doc) = 1
  /\ Len(DocSections(1)) = 2
  /\ Len(DocLanes(1, 1)) = 4
  /\ DocSections(1)[2].left = <<>>
  /\ DocSections(1)[2].right = <<>>
  /\ Len(calls) = 7
  /\ calls[3].laneId = 1 /\ calls[4].laneId = 2
  /\ calls[5].laneId = -1 /\ calls[6].laneId = -2
  /\ calls[7].op = "AddRoadSection"

\* C10: the builder gets no call before every road element has been extracted,
\* and none at all when the extraction traps.
C10_NoCallBeforeExtractionEnds ==
  /\ calls # <<>> => (Len(roads) = Len(doc) /\ pc \notin {"road", "section", "fatal"})
  /\ pc \in {"road", "section", "fatal"} => calls = <<>>

\* the extraction has trapped on the second road after a first road that was
\* extracted in full, and the builder has no call
C10_Witness ==
  /\ pc = "fatal"
  /\ Len(roads) = 1
  /\ EnoughOffsets(1)
  /\ Len(roads[1].sections) >= 1
  /\ calls = <<>>

====
